---- MODULE Spec2Model ----
(***************************************************************************)
(* Model of library/panos_security_rule.py: one Ansible module run         *)
(* (main) that locates a rulebase on a PAN-OS firewall or a Panorama and   *)
(* performs find, delete or add of one security rule.                      *)
(*                                                                         *)
(* Python values are modelled as strings: None is "None", the boolean True *)
(* used as a device group name is "True".  A remote rulebase is a sequence *)
(* of rule records whose names are unique (PAN-OS entries are keyed by     *)
(* name); the in-memory rulebase of pandevice is a plain child list.       *)
(***************************************************************************)
EXTENDS Integers, Sequences, FiniteSets, TLC

VARIABLES pc, devType, remote, params, dev_group, requests, rulebase,
          new_rule, raised, result

vars == <<pc, devType, remote, params, dev_group, requests, rulebase,
          new_rule, raised, result>>

NoneVal == "None"
TrueVal == "True"

\* ---------------------------------------------------------------- inputs
RuleNames == {"r1", "r2"}
ProfileNames == {"pA", "pB"}
ProfileArgs == {"antivirus", "vulnerability", "spyware", "url_filtering",
                "file_blocking", "data_filtering", "wildfire_analysis"}
DevicegroupArgs == {NoneVal, "", "dg1", "dg2"}
DeviceTypes == {"Firewall", "Panorama", "Other"}
RemoteMessages == {"commit lock held", "permission denied"}

\* what device.refresh_devices() returns on the Panorama: one device group
\* and one managed firewall
RefreshedDevices ==
    << [cls |-> "Firewall", name |-> "dg2"],
       [cls |-> "DeviceGroup", name |-> "dg1"] >>

\* Python truthiness of an optional string argument
Truthy(v) == v # NoneVal /\ v # ""

\* -------------------------------------------------------- argument_spec
DefaultParams ==
    [ operation |-> "find", rule_name |-> "r1", description |-> "",
      tag |-> NoneVal,
      to_zone |-> <<"any">>, from_zone |-> <<"any">>, source |-> <<"any">>,
      source_user |-> <<"any">>, destination |-> <<"any">>,
      category |-> <<"any">>, application |-> <<"any">>,
      service |-> <<"application-default">>, hip_profiles |-> <<"any">>,
      group_profile |-> NoneVal, antivirus |-> NoneVal,
      vulnerability |-> NoneVal, spyware |-> NoneVal,
      url_filtering |-> NoneVal, file_blocking |-> NoneVal,
      data_filtering |-> NoneVal, wildfire_analysis |-> NoneVal,
      log_start |-> FALSE, log_end |-> TRUE, rule_type |-> "universal",
      action |-> "allow", devicegroup |-> NoneVal ]

\* the keyword arguments main passes to create_security_rule: every key is
\* passed, whether or not the user supplied the option
AddKwargs(p) ==
    [ rule_name |-> p.rule_name, description |-> p.description,
      tag |-> p.tag, from_zone |-> p.from_zone, to_zone |-> p.to_zone,
      source |-> p.source, source_user |-> p.source_user,
      destination |-> p.destination, category |-> p.category,
      application |-> p.application, service |-> p.service,
      hip_profiles |-> p.hip_profiles, group_profile |-> p.group_profile,
      antivirus |-> p.antivirus, vulnerability |-> p.vulnerability,
      spyware |-> p.spyware, url_filtering |-> p.url_filtering,
      file_blocking |-> p.file_blocking, data_filtering |-> p.data_filtering,
      wildfire_analysis |-> p.wildfire_analysis, log_start |-> p.log_start,
      log_end |-> p.log_end, rule_type |-> p.rule_type,
      action |-> p.action ]

\* ------------------------------------------------- create_security_rule
\* policies.SecurityRule(...) with the constructor arguments of the call;
\* every attribute not given to the constructor starts as None
SecurityRule(kwargs) ==
    [ name |-> kwargs["rule_name"], description |-> kwargs["description"],
      tozone |-> kwargs["to_zone"], fromzone |-> kwargs["from_zone"],
      source |-> kwargs["source"], source_user |-> kwargs["source_user"],
      destination |-> kwargs["destination"], category |-> kwargs["category"],
      application |-> kwargs["application"], service |-> kwargs["service"],
      hip_profiles |-> kwargs["hip_profiles"],
      log_start |-> kwargs["log_start"], log_end |-> kwargs["log_end"],
      type |-> kwargs["rule_type"], action |-> kwargs["action"],
      tag |-> NoneVal, group |-> NoneVal, virus |-> NoneVal,
      vulnerability |-> NoneVal, spyware |-> NoneVal,
      url_filtering |-> NoneVal, file_blocking |-> NoneVal,
      data_filtering |-> NoneVal, wildfire_analysis |-> NoneVal ]

\* if key in kwargs: rule.attr = kwargs[key]
SetIfIn(rule, kwargs, key, attr) ==
    IF key \in DOMAIN kwargs THEN [rule EXCEPT ![attr] = kwargs[key]]
    ELSE rule

IndividualProfiles(rule, kwargs) ==
    LET r1 == SetIfIn(rule, kwargs, "antivirus", "virus")
        r2 == SetIfIn(r1, kwargs, "vulnerability", "vulnerability")
        r3 == SetIfIn(r2, kwargs, "spyware", "spyware")
        r4 == SetIfIn(r3, kwargs, "url_filtering", "url_filtering")
        r5 == SetIfIn(r4, kwargs, "file_blocking", "file_blocking")
        r6 == SetIfIn(r5, kwargs, "data_filtering", "data_filtering")
    IN  SetIfIn(r6, kwargs, "wildfire_analysis", "wildfire_analysis")

create_security_rule_both(kwargs) ==
    LET tagged == SetIfIn(SecurityRule(kwargs), kwargs, "tag", "tag")
    IN  IndividualProfiles(SetIfIn(tagged, kwargs, "group_profile", "group"),
                           kwargs)

create_security_rule(kwargs) ==
    LET tagged == SetIfIn(SecurityRule(kwargs), kwargs, "tag", "tag")
    IN  IF "group_profile" \in DOMAIN kwargs
        THEN [tagged EXCEPT !.group = kwargs["group_profile"]]
        ELSE IndividualProfiles(tagged, kwargs)

\* the rule attribute each individual profile option is stored in
ProfileAttr(key) == IF key = "antivirus" THEN "virus" ELSE key

\* ------------------------------------------------------ sequence helpers
RECURSIVE IndexOfName(_, _, _)
\* index of the first element of seq at or after i whose name is n, 0 if none
IndexOfName(seq, n, i) ==
    IF i > Len(seq) THEN 0
    ELSE IF seq[i].name = n THEN i
    ELSE IndexOfName(seq, n, i + 1)

RemoveAt(seq, i) ==
    [j \in 1..(Len(seq) - 1) |-> IF j < i THEN seq[j] ELSE seq[j + 1]]

Names(seq) == {seq[i].name : i \in 1..Len(seq)}

\* ------------------------------------------------------- get_devicegroup
RECURSIVE get_devicegroup_from(_, _, _)
get_devicegroup_from(dev_grps, devicegroup, i) ==
    IF i > Len(dev_grps) THEN FALSE
    ELSE IF dev_grps[i].cls = "DeviceGroup" /\ dev_grps[i].name = devicegroup
         THEN TRUE
         ELSE get_devicegroup_from(dev_grps, devicegroup, i + 1)

RECURSIVE get_devicegroup_anycls(_, _, _)
get_devicegroup_anycls(dev_grps, devicegroup, i) ==
    IF i > Len(dev_grps) THEN FALSE
    ELSE IF dev_grps[i].name = devicegroup THEN TRUE
         ELSE get_devicegroup_anycls(dev_grps, devicegroup, i + 1)

get_devicegroup_noisinstance(dev_grps, devicegroup) ==
    get_devicegroup_anycls(dev_grps, devicegroup, 1)

\* returns a boolean, not the group
get_devicegroup(dev_grps, devicegroup) ==
    get_devicegroup_from(dev_grps, devicegroup, 1)

\* ---------------------------------------------------------- get_rulebase
NoRulebase == [kind |-> "unset", dg |-> NoneVal, children |-> <<>>,
               loaded |-> <<>>]
FalseRulebase == [kind |-> "False", dg |-> NoneVal, children |-> <<>>,
                  loaded |-> <<>>]

\* the remote container a rulebase object is attached to and refreshed from
ContainerOf(rb) == IF rb.kind = "Rulebase" THEN "flat" ELSE rb.dg

Containers == {"flat", "dg1", TrueVal, NoneVal}

\* devicegroup is the value main passes: dev_group, i.e. None or True
get_rulebase(device, devicegroup, rem) ==
    IF device = "Firewall"
    THEN [kind |-> "Rulebase", dg |-> NoneVal, children |-> rem["flat"],
          loaded |-> rem["flat"]]
    ELSE IF device = "Panorama"
    THEN [kind |-> "PreRulebase", dg |-> devicegroup,
          children |-> rem[devicegroup], loaded |-> rem[devicegroup]]
    ELSE FalseRulebase

\* ------------------------------------------------------------- find_rule
\* rulebase.find(rule_name): index of the first child with that name;
\* 0 stands for the False that find_rule returns
find_rule_first(children, rule_name) == IF Len(children) > 0 THEN 1 ELSE 0

find_rule(children, rule_name) == IndexOfName(children, rule_name, 1)

\* ------------------------------------------------------- the remote side
\* a PAN-OS "set" of an entry: a new name is appended to the rulebase, an
\* existing name is overwritten where it stands
RemoteCreate(seq, rule) ==
    LET i == IndexOfName(seq, rule.name, 1)
    IN  IF i = 0 THEN Append(seq, rule) ELSE [seq EXCEPT ![i] = rule]

\* a PAN-OS "delete" of the entry with that name
RemoteDelete(seq, n) ==
    LET i == IndexOfName(seq, n, 1)
    IN  IF i = 0 THEN seq ELSE RemoveAt(seq, i)

Request(call, container, name) ==
    [call |-> call, container |-> container, name |-> name]

\* --------------------------------------------------------- module result
NoResult == [status |-> "running", changed |-> FALSE, msg |-> <<>>,
             stdout |-> <<>>]

\* AnsibleModule.exit_json / fail_json end the process; changed is False
\* unless given
exit_json(changed, msg, stdout) ==
    [status |-> "ok", changed |-> changed, msg |-> msg, stdout |-> stdout]

fail_json(msg) ==
    [status |-> "failed", changed |-> FALSE, msg |-> msg, stdout |-> <<>>]

\* an exception nothing catches: the module dies with a traceback
Traceback(exc) ==
    [status |-> "exception", changed |-> FALSE, msg |-> <<exc>>,
     stdout |-> <<>>]

GroupNotFoundFmt == "'%s' device group not found in Panorama. Is the name correct?"
RuleNotFoundFmt == "Rule '%s' not found. Is the name correct?"
DeletedFmt == "Rule '%s' successfully deleted"
AddedFmt == "Rule '%s' successfully added"

\* json.dumps(xmltodict.parse(match.element_str())): the entry's name
\* attribute first, then one member list per attribute that is not None;
\* booleans are rendered yes/no
YesNo(b) == IF b THEN "yes" ELSE "no"

Opt(tagname, v) == IF v = NoneVal THEN <<>> ELSE << <<tagname, <<v>> >> >>

Dump(rule) ==
    << <<"@name", <<rule.name>> >>,
       <<"to", rule.tozone>>, <<"from", rule.fromzone>>,
       <<"source", rule.source>>, <<"source-user", rule.source_user>>,
       <<"hip-profiles", rule.hip_profiles>>,
       <<"destination", rule.destination>>,
       <<"application", rule.application>>, <<"service", rule.service>>,
       <<"category", rule.category>>,
       <<"action", <<rule.action>> >>,
       <<"log-start", <<YesNo(rule.log_start)>> >>,
       <<"log-end", <<YesNo(rule.log_end)>> >>,
       <<"description", <<rule.description>> >>,
       <<"rule-type", <<rule.type>> >> >>
    \o Opt("tag", rule.tag) \o Opt("group", rule.group)
    \o Opt("virus", rule.virus) \o Opt("vulnerability", rule.vulnerability)
    \o Opt("spyware", rule.spyware)
    \o Opt("url-filtering", rule.url_filtering)
    \o Opt("file-blocking", rule.file_blocking)
    \o Opt("data-filtering", rule.data_filtering)
    \o Opt("wildfire-analysis", rule.wildfire_analysis)

\* ------------------------------------------------------------------ main
\* one run of the module against the device at ip_address; the profile
\* options are varied for add only, where they are used
Invocations ==
    { [DefaultParams EXCEPT !.operation = op, !.rule_name = n,
                            !.devicegroup = dg, !.group_profile = g,
                            !.antivirus = av] :
        op \in {"find", "delete"}, n \in RuleNames, dg \in DevicegroupArgs,
        g \in {NoneVal}, av \in {NoneVal} }
    \cup
    { [DefaultParams EXCEPT !.operation = "add", !.rule_name = n,
                            !.devicegroup = dg, !.group_profile = g,
                            !.antivirus = av] :
        n \in RuleNames, dg \in DevicegroupArgs,
        g \in {NoneVal, "pA"}, av \in {NoneVal, "pB"} }

InitialRule(n) ==
    create_security_rule(AddKwargs([DefaultParams EXCEPT !.rule_name = n]))

InitialRemote(device) ==
    [c \in Containers |->
        IF (device = "Firewall" /\ c = "flat")
           \/ (device = "Panorama" /\ c = "dg1")
        THEN <<InitialRule("r1")>> ELSE <<>>]

Init ==
    /\ pc = "idle"
    /\ devType \in DeviceTypes
    /\ remote = InitialRemote(devType)
    /\ params = DefaultParams
    /\ dev_group = NoneVal
    /\ requests = <<>>
    /\ rulebase = NoRulebase
    /\ new_rule = InitialRule("r1")
    /\ raised = NoneVal
    /\ result = NoResult

\* the module starts: arguments parsed, device object created
Invoke ==
    /\ pc \in {"idle", "done"}
    /\ params' \in Invocations
    /\ pc' = "validate"
    /\ dev_group' = NoneVal
    /\ requests' = <<>>
    /\ rulebase' = NoRulebase
    /\ raised' = NoneVal
    /\ result' = NoResult
    /\ UNCHANGED <<devType, remote, new_rule>>

\* "If Panorama, validate the devicegroup".  device.add(dev_group) is
\* called with the boolean True: pandevice either rejects the non-object
\* with an AttributeError or takes it
ValidateDevicegroup ==
    /\ pc = "validate"
    /\ IF Truthy(params.devicegroup) /\ devType = "Panorama"
       THEN /\ requests' = Append(requests,
                                  Request("refresh_devices", NoneVal, NoneVal))
            /\ IF get_devicegroup(RefreshedDevices, params.devicegroup)
               THEN \/ /\ dev_group' = TrueVal
                       /\ pc' = "get_rulebase"
                       /\ result' = result
                    \/ /\ dev_group' = TrueVal
                       /\ pc' = "done"
                       /\ result' = Traceback("AttributeError")
               ELSE /\ dev_group' = NoneVal
                    /\ pc' = "done"
                    /\ result' = fail_json(<<GroupNotFoundFmt,
                                             params.devicegroup>>)
       ELSE /\ pc' = "get_rulebase"
            /\ UNCHANGED <<dev_group, requests, result>>
    /\ UNCHANGED <<devType, remote, params, rulebase, new_rule, raised>>

\* rulebase = get_rulebase(device, dev_group), with its refreshall
GetRulebase ==
    /\ pc = "get_rulebase"
    /\ rulebase' = get_rulebase(devType, dev_group, remote)
    /\ requests' = IF rulebase'.kind = "False" THEN requests
                   ELSE Append(requests, Request("refreshall",
                                                 ContainerOf(rulebase'),
                                                 NoneVal))
    /\ pc' = "operate"
    /\ UNCHANGED <<devType, remote, params, dev_group, new_rule, raised,
                   result>>

\* operation == "find"
find_result_empty(rb, rule_name) ==
    LET match == find_rule(rb.children, rule_name)
    IN  IF rb.kind = "False" THEN Traceback("AttributeError")
        ELSE IF match # 0
        THEN exit_json(FALSE, <<"Rule matched">>, Dump(rb.children[match]))
        ELSE exit_json(FALSE, <<"Rule matched">>, <<>>)

find_result(rb, rule_name) ==
    LET match == find_rule(rb.children, rule_name)
    IN  IF rb.kind = "False" THEN Traceback("AttributeError")
        ELSE IF match # 0
        THEN exit_json(FALSE, <<"Rule matched">>, Dump(rb.children[match]))
        ELSE fail_json(<<RuleNotFoundFmt, rule_name>>)

Find ==
    /\ pc = "operate"
    /\ params.operation = "find"
    /\ result' = find_result(rulebase, params.rule_name)
    /\ pc' = "done"
    /\ UNCHANGED <<devType, remote, params, dev_group, requests, rulebase,
                   new_rule, raised>>

\* operation == "delete"; err is what match.delete() raised, None if it
\* returned
delete_result_changed(rule_name, err) ==
    exit_json(TRUE, <<DeletedFmt, rule_name>>, <<>>)

delete_result(rule_name, err) ==
    IF err # NoneVal THEN fail_json(<<err>>)
    ELSE exit_json(TRUE, <<DeletedFmt, rule_name>>, <<>>)

Delete ==
    /\ pc = "operate"
    /\ params.operation = "delete"
    /\ pc' = "done"
    /\ IF rulebase.kind = "False"
       THEN /\ result' = Traceback("AttributeError")
            /\ UNCHANGED <<remote, requests, rulebase, raised>>
       ELSE LET match == find_rule(rulebase.children, params.rule_name)
                c == ContainerOf(rulebase)
            IN  IF match = 0
                THEN /\ result' = fail_json(<<RuleNotFoundFmt,
                                              params.rule_name>>)
                     /\ UNCHANGED <<remote, requests, rulebase, raised>>
                ELSE /\ requests' = Append(requests,
                                 Request("delete", c,
                                         rulebase.children[match].name))
                     /\ \E err \in {NoneVal} \cup RemoteMessages :
                          /\ raised' = err
                          /\ result' = delete_result(params.rule_name, err)
                          /\ IF err = NoneVal
                             THEN /\ remote' = [remote EXCEPT ![c] =
                                        RemoteDelete(@,
                                            rulebase.children[match].name)]
                                  /\ rulebase' = [rulebase EXCEPT
                                        !.children = RemoveAt(@, match)]
                             ELSE UNCHANGED <<remote, rulebase>>
    /\ UNCHANGED <<devType, params, dev_group, new_rule>>

\* add_rule: whether the rule is attached and created at all
add_rule_unique(rb, sec_rule) ==
    rb.kind # "False" /\ sec_rule.name \notin Names(rb.children)

add_rule(rb, sec_rule) == rb.kind # "False"

\* err is what sec_rule.create() raised, None if it returned
add_result(changed, rule_name, err) ==
    IF err # NoneVal THEN fail_json(<<err>>)
    ELSE exit_json(changed, <<AddedFmt, rule_name>>, <<>>)

\* operation == "add"
Add ==
    /\ pc = "operate"
    /\ params.operation = "add"
    /\ pc' = "done"
    /\ new_rule' = create_security_rule(AddKwargs(params))
    /\ IF add_rule(rulebase, new_rule')
       THEN LET c == ContainerOf(rulebase)
            IN  /\ rulebase' = [rulebase EXCEPT
                                  !.children = Append(@, new_rule')]
                /\ requests' = Append(requests,
                                      Request("create", c, new_rule'.name))
                /\ \E err \in {NoneVal} \cup RemoteMessages :
                     /\ raised' = err
                     /\ result' = add_result(TRUE, params.rule_name, err)
                     /\ IF err = NoneVal
                        THEN remote' = [remote EXCEPT ![c] =
                                            RemoteCreate(@, new_rule')]
                        ELSE UNCHANGED remote
       ELSE /\ result' = add_result(FALSE, params.rule_name, NoneVal)
            /\ UNCHANGED <<remote, requests, rulebase, raised>>
    /\ UNCHANGED <<devType, params, dev_group>>

Next == Invoke \/ ValidateDevicegroup \/ GetRulebase \/ Find \/ Delete \/ Add

Spec == Init /\ [][Next]_vars

\* ---------------------------------------------- the Rule Builder alone
\* every combination of the eight profile options, each unset or set
BuildInputs ==
    { [DefaultParams EXCEPT !.operation = "add", !.group_profile = g,
                            !.antivirus = f["antivirus"],
                            !.vulnerability = f["vulnerability"],
                            !.spyware = f["spyware"],
                            !.url_filtering = f["url_filtering"],
                            !.file_blocking = f["file_blocking"],
                            !.data_filtering = f["data_filtering"],
                            !.wildfire_analysis = f["wildfire_analysis"]] :
        g \in {NoneVal} \cup ProfileNames,
        f \in [ProfileArgs -> {NoneVal} \cup ProfileNames] }

InitBuild ==
    /\ pc = "build"
    /\ devType = "Firewall"
    /\ remote = InitialRemote("Firewall")
    /\ params \in BuildInputs
    /\ dev_group = NoneVal
    /\ requests = <<>>
    /\ rulebase = NoRulebase
    /\ new_rule = InitialRule("r1")
    /\ raised = NoneVal
    /\ result = NoResult

Build ==
    /\ pc = "build"
    /\ new_rule' = create_security_rule(AddKwargs(params))
    /\ pc' = "built"
    /\ UNCHANGED <<devType, remote, params, dev_group, requests, rulebase,
                   raised, result>>

NextBuild == Build

SpecBuild == InitBuild /\ [][NextBuild]_vars

TypeOK ==
    /\ pc \in {"idle", "validate", "get_rulebase", "operate", "done",
               "build", "built"}
    /\ devType \in DeviceTypes
    /\ dev_group \in {NoneVal, TrueVal}
    /\ result.status \in {"running", "ok", "failed", "exception"}

\* ============================================================ properties
Located == rulebase.kind \in {"Rulebase", "PreRulebase"}

RefreshedGroupNames ==
    { RefreshedDevices[i].name :
        i \in { j \in 1..Len(RefreshedDevices) :
                  RefreshedDevices[j].cls = "DeviceGroup" } }

CountCalls(call) ==
    Cardinality({ i \in 1..Len(requests) : requests[i].call = call })

WithoutName(seq, n) == SelectSeq(seq, LAMBDA r : r.name # n)

\* C1: a rule built by main's call of create_security_rule with
\* group_profile set carries that group and none of the seven individual
\* profiles, whatever was supplied for them.
C1_GroupProfileOnly ==
    (pc = "built" /\ params.group_profile # NoneVal)
        => /\ new_rule.group = params.group_profile
           /\ \A k \in ProfileArgs : new_rule[ProfileAttr(k)] = NoneVal

C1_Witness ==
    /\ pc = "built"
    /\ params.group_profile = "pA"
    /\ params.antivirus = "pB"
    /\ params.spyware = "pA"
    /\ new_rule.group = "pA"

\* C2: a rule built by main's call of create_security_rule without
\* group_profile carries every supplied individual profile with its value
\* and leaves the others unset.
C2_IndividualProfilesKept ==
    (pc = "built" /\ params.group_profile = NoneVal)
        => \A k \in ProfileArgs : new_rule[ProfileAttr(k)] = params[k]

\* C3: on a Panorama with a devicegroup that exists, the rulebase the
\* operation works on is the pre-rulebase of the device group with the
\* supplied name.
C3_RulebaseOfNamedGroup ==
    (/\ pc \in {"operate", "done"}
     /\ devType = "Panorama"
     /\ params.devicegroup \in RefreshedGroupNames
     /\ Located)
        => /\ rulebase.kind = "PreRulebase"
           /\ rulebase.dg = params.devicegroup

\* C4: on a Panorama a devicegroup name that is not among the refreshed
\* device groups ends the run with the group-not-found failure naming it,
\* with the device refresh as the only remote request; on a firewall no
\* device group is looked up and the flat rulebase is used.
C4_GroupNotFoundOrFlat ==
    /\ (/\ devType = "Panorama"
        /\ Truthy(params.devicegroup)
        /\ params.devicegroup \notin RefreshedGroupNames
        /\ pc \notin {"idle", "validate"})
           => /\ pc = "done"
              /\ result.status = "failed"
              /\ result.changed = FALSE
              /\ result.msg = <<GroupNotFoundFmt, params.devicegroup>>
              /\ requests = <<Request("refresh_devices", NoneVal, NoneVal)>>
              /\ rulebase = NoRulebase
    /\ (devType = "Firewall" /\ pc \in {"get_rulebase", "operate", "done"})
           => /\ CountCalls("refresh_devices") = 0
              /\ dev_group = NoneVal
              /\ (result.status # "failed"
                    \/ result.msg[1] # GroupNotFoundFmt)
              /\ pc # "get_rulebase"
                    => /\ rulebase.kind = "Rulebase"
                       /\ ContainerOf(rulebase) = "flat"
                       /\ requests[1] = Request("refreshall", "flat", NoneVal)

C4_Witness ==
    /\ devType = "Panorama"
    /\ params.devicegroup = "dg2"
    /\ params.operation = "delete"
    /\ pc = "done"
    /\ result.status = "failed"

DeleteDone ==
    pc = "done" /\ params.operation = "delete" /\ Located

DeleteAbsent ==
    /\ result = fail_json(<<RuleNotFoundFmt, params.rule_name>>)
    /\ CountCalls("delete") = 0
    /\ remote[ContainerOf(rulebase)] = rulebase.loaded

DeleteRequested ==
    /\ CountCalls("delete") = 1
    /\ requests[Len(requests)] =
           Request("delete", ContainerOf(rulebase), params.rule_name)

DeleteRemoved ==
    /\ params.rule_name \notin Names(remote[ContainerOf(rulebase)])
    /\ result.status = "ok"
    /\ result.changed = TRUE

\* C5 as stated: delete of an absent name fails with rule-not-found, sends
\* no removal and reports no change; delete of a present name sends one
\* removal for that rule, the rule is gone afterwards and changed=true is
\* reported.
C5_DeleteAsStated ==
    DeleteDone =>
        IF params.rule_name \notin Names(rulebase.loaded)
        THEN DeleteAbsent
        ELSE DeleteRequested /\ DeleteRemoved

\* C5 amended: as above, but the rule is gone and changed=true is reported
\* only when the Device Client accepts the removal; when it rejects it the
\* run fails and the rule stays.
C5_DeleteUnlessRejected ==
    DeleteDone =>
        IF params.rule_name \notin Names(rulebase.loaded)
        THEN DeleteAbsent
        ELSE /\ DeleteRequested
             /\ IF raised = NoneVal THEN DeleteRemoved
                ELSE /\ result.status = "failed"
                     /\ result.changed = FALSE
                     /\ remote[ContainerOf(rulebase)] = rulebase.loaded

C5_Witness ==
    /\ DeleteDone
    /\ params.rule_name \in Names(rulebase.loaded)
    /\ Len(rulebase.loaded) = 2
    /\ raised = NoneVal
    /\ result.changed = TRUE

\* C6: find of a name that is not in the refreshed rulebase ends in the
\* rule-not-found failure, never in a success; find of a present name ends
\* in success with the dump of the rule of that name and reports no change.
C6_FindFailsOrDumps ==
    (pc = "done" /\ params.operation = "find" /\ Located)
        => /\ result.changed = FALSE
           /\ remote[ContainerOf(rulebase)] = rulebase.loaded
           /\ CountCalls("create") + CountCalls("delete") = 0
           /\ IF params.rule_name \notin Names(rulebase.loaded)
              THEN /\ result.status = "failed"
                   /\ result.msg = <<RuleNotFoundFmt, params.rule_name>>
                   /\ result.stdout = <<>>
              ELSE /\ result.status = "ok"
                   /\ result.stdout[1] = <<"@name", <<params.rule_name>> >>
                   /\ \E i \in 1..Len(rulebase.loaded) :
                        /\ rulebase.loaded[i].name = params.rule_name
                        /\ result.stdout = Dump(rulebase.loaded[i])

C6_Witness ==
    /\ pc = "done"
    /\ params.operation = "find"
    /\ params.rule_name = "r2"
    /\ Len(rulebase.loaded) = 2
    /\ rulebase.loaded[2].name = "r2"
    /\ rulebase.loaded[2].group = "pA"
    /\ result.status = "ok"

\* C7: an add whose creation call is not rejected reports changed=true
\* after attaching the rule and sending one creation request, whether or
\* not the refreshed rulebase already holds a rule of that name.
C7_AddAlwaysChanged ==
    (pc = "done" /\ params.operation = "add" /\ Located /\ raised = NoneVal)
        => /\ result.status = "ok"
           /\ result.changed = TRUE
           /\ CountCalls("create") = 1
           /\ requests[Len(requests)] =
                  Request("create", ContainerOf(rulebase), params.rule_name)
           /\ rulebase.children = Append(rulebase.loaded, new_rule)

C7_Witness ==
    /\ pc = "done"
    /\ params.operation = "add"
    /\ params.rule_name \in Names(rulebase.loaded)
    /\ raised = NoneVal
    /\ result.changed = TRUE

\* C8: when the Device Client rejects the removal or the creation, the run
\* fails with the client's message as it was raised, reports neither a
\* change nor success, and the rejected request is the last one sent.
C8_RejectionPassedThrough ==
    raised # NoneVal
        => /\ pc = "done"
           /\ result.status = "failed"
           /\ result.changed = FALSE
           /\ result.msg = <<raised>>
           /\ CountCalls("create") + CountCalls("delete") = 1
           /\ requests[Len(requests)].call \in {"create", "delete"}
           /\ requests[Len(requests)].name = params.rule_name
           /\ remote[ContainerOf(rulebase)] = rulebase.loaded

C8_Witness ==
    /\ raised = "commit lock held"
    /\ params.operation = "add"
    /\ result.status = "failed"

\* C9: no step reorders or changes a rule other than the one named by
\* rule_name: find leaves every rulebase alone, delete takes out at most
\* the named rule, add leaves every existing rule at its place and puts a
\* new one behind them.
C9_OthersKeepPlace ==
    [][ /\ \A c \in Containers :
             /\ WithoutName(remote'[c], params'.rule_name)
                    = WithoutName(remote[c], params'.rule_name)
             /\ params'.operation = "find" => remote'[c] = remote[c]
             /\ params'.operation = "delete"
                    => /\ Len(remote'[c]) <= Len(remote[c])
                       /\ Len(remote'[c]) >= Len(remote[c]) - 1
             /\ params'.operation = "add"
                    => /\ Len(remote'[c]) >= Len(remote[c])
                       /\ Len(remote'[c]) <= Len(remote[c]) + 1
                       /\ \A i \in 1..Len(remote[c]) :
                            remote[c][i].name # params'.rule_name
                                => remote'[c][i] = remote[c][i]
        /\ (pc = "operate" /\ params.operation = "add")
             => SubSeq(rulebase'.children, 1, Len(rulebase.children))
                    = rulebase.children
      ]_vars

C9_Witness ==
    /\ pc = "done"
    /\ params.operation = "add"
    /\ params.rule_name = "r1"
    /\ raised = NoneVal
    /\ Located
    /\ Len(remote[ContainerOf(rulebase)]) = 2
    /\ remote[ContainerOf(rulebase)][1].name = "r2"
    /\ remote[ContainerOf(rulebase)][2].name = "r1"

\* C10: a run that ends with the "successfully added" or "successfully
\* deleted" report has sent exactly one create, respectively delete,
\* request for rule_name, after the refresh of the located rulebase, for
\* every device type.
C10_SuccessMeansRequested ==
    (pc = "done" /\ result.status = "ok"
        /\ result.msg[1] \in {AddedFmt, DeletedFmt})
        => \E i \in 1..Len(requests) :
             /\ requests[i].call =
                    (IF result.msg[1] = AddedFmt THEN "create" ELSE "delete")
             /\ requests[i].name = params.rule_name
             /\ CountCalls(requests[i].call) = 1
             /\ \E j \in 1..(i - 1) : requests[j].call = "refreshall"

====
